---- MODULE Spec2Model ----
(***************************************************************************)
(* Model of main.py: the Informatica mapping XML parser, its data model,   *)
(* the textual report, the JSON export and the command-line driver.        *)
(*                                                                         *)
(* An XML document is a sequence of elements in document (pre-)order, each *)
(* with its ElementTree tag (namespace URI and local name), its attribute  *)
(* dictionary and its depth in the tree; element i's descendants are the   *)
(* elements that follow it while the depth stays greater than its own.     *)
(* A Python Optional value is a sequence of length at most one: <<>> is    *)
(* None and <<v>> is v.                                                    *)
(***************************************************************************)
EXTENDS Integers, Sequences, FiniteSets, TLC

(***************************************************************************)
(* Bounds of the documents explored.                                       *)
(***************************************************************************)
MaxNodes == 4
MaxNsNodes == 3
MaxProps == 2
MaxTrans == 3
MaxPorts == 2
MaxConnVariants == 2
MaxConn == 11

(***************************************************************************)
(* Python values                                                           *)
(***************************************************************************)
None == <<>>

Some(v) == <<v>>

\* Python truthiness of an Optional[str]: neither None nor the empty string
Truthy(o) == o # None /\ o[1] # ""

EmptyDict == [k \in {} |-> ""]

\* d[key] = value on a dict
DictSet(d, key, value) ==
    [k \in (DOMAIN d) \cup {key} |-> IF k = key THEN value ELSE d[k]]

Restrict(d, keys) == [k \in keys |-> d[k]]

\* the ascending sequence of a finite set of integers
RECURSIVE SortedSeq(_)
SortedSeq(S) ==
    IF S = {} THEN <<>>
    ELSE LET lo == CHOOSE x \in S : \A y \in S : x <= y
         IN  <<lo>> \o SortedSeq(S \ {lo})

SeqsUpTo(S, n) == UNION {[1..k -> S] : k \in 0..n}

\* s[:n]
Take(s, n) == SubSeq(s, 1, IF Len(s) < n THEN Len(s) ELSE n)

(***************************************************************************)
(* Strings whose characters the program looks at are character sequences.  *)
(***************************************************************************)
StartsWith(s, p) == Len(s) >= Len(p) /\ SubSeq(s, 1, Len(p)) = p

\* str.replace(old, new): every non-overlapping occurrence, left to right
RECURSIVE StrReplace(_, _, _)
StrReplace(s, old, new) ==
    IF s = <<>> THEN <<>>
    ELSE IF StartsWith(s, old)
         THEN new \o StrReplace(SubSeq(s, Len(old) + 1, Len(s)), old, new)
         ELSE <<Head(s)>> \o StrReplace(Tail(s), old, new)

Digits == <<"0", "1", "2", "3", "4", "5", "6", "7", "8", "9">>

IsDigit(c) == \E d \in 1..10 : Digits[d] = c

DigitValue(c) == (CHOOSE d \in 1..10 : Digits[d] = c) - 1

RECURSIVE Strip(_)
Strip(s) ==
    IF s # <<>> /\ Head(s) = " " THEN Strip(Tail(s))
    ELSE IF s # <<>> /\ s[Len(s)] = " " THEN Strip(SubSeq(s, 1, Len(s) - 1))
    ELSE s

RECURSIVE DecimalValue(_)
DecimalValue(s) ==
    IF s = <<>> THEN 0
    ELSE 10 * DecimalValue(SubSeq(s, 1, Len(s) - 1)) + DigitValue(s[Len(s)])

\* the characters of the attribute values that are given to int()
StrChars(s) ==
    CASE s = "12"  -> <<"1", "2">>
      [] s = "2"   -> <<"2">>
      [] s = " 7"  -> <<" ", "7">>
      [] s = "-5"  -> <<"-", "5">>
      [] s = "1.5" -> <<"1", ".", "5">>
      [] s = "abc" -> <<"a", "b", "c">>
      [] s = ""    -> <<>>

\* int(value): surrounding blanks stripped, an optional sign, then digits;
\* anything else raises ValueError, which _safe_int turns into None
_safe_int(value) ==
    IF value = None THEN None
    ELSE LET t == Strip(StrChars(value[1]))
             signed == t # <<>> /\ Head(t) \in {"-", "+"}
             body == IF signed THEN Tail(t) ELSE t
         IN  IF body # <<>> /\ \A i \in 1..Len(body) : IsDigit(body[i])
             THEN Some(IF signed /\ Head(t) = "-"
                       THEN 0 - DecimalValue(body) ELSE DecimalValue(body))
             ELSE None

(***************************************************************************)
(* ElementTree                                                             *)
(***************************************************************************)
Tag(ns, name) == [ns |-> ns, name |-> name]

El(ns, name, attrib) == [tag |-> Tag(ns, name), attrib |-> attrib]

Node(el, depth) == [tag |-> el.tag, attrib |-> el.attrib, depth |-> depth]

\* elem.get(key, default)
Get(elem, key, default) ==
    IF key \in DOMAIN elem.attrib THEN elem.attrib[key] ELSE default

\* elem.get(key)
GetOpt(elem, key) ==
    IF key \in DOMAIN elem.attrib THEN Some(elem.attrib[key]) ELSE None

\* the proper descendants of element i
Descendants(doc, i) ==
    {j \in (i + 1)..Len(doc) : \A k \in (i + 1)..j : doc[k].depth > doc[i].depth}

\* The tag a path step names.  ElementPath qualifies a step only when it is
\* written with a prefix ("ns:MAPPING") or when the namespaces map has a
\* default ("") entry; the steps used here have no prefix.
PathTag(name, namespaces) ==
    IF "" \in DOMAIN namespaces THEN Tag(namespaces[""], name) ELSE Tag("", name)

\* elem.findall('.//name', namespaces): the matching descendants in document order
findall(doc, i, name, namespaces) ==
    SortedSeq({j \in Descendants(doc, i) : doc[j].tag = PathTag(name, namespaces)})

\* elem.find('.//name', namespaces): the first match, or None
find(doc, i, name, namespaces) ==
    LET all == findall(doc, i, name, namespaces)
    IN  IF all = <<>> THEN None ELSE Some(all[1])

(***************************************************************************)
(* Data model                                                              *)
(***************************************************************************)
Port(name, datatype, precision, scale, nullable, port_type, expression) ==
    [name |-> name, datatype |-> datatype, precision |-> precision,
     scale |-> scale, nullable |-> nullable, port_type |-> port_type,
     expression |-> expression]

Transformation(name, type, description, ports, properties) ==
    [name |-> name, type |-> type, description |-> description,
     ports |-> ports, properties |-> properties]

Connection(from_transformation, from_port, to_transformation, to_port) ==
    [from_transformation |-> from_transformation, from_port |-> from_port,
     to_transformation |-> to_transformation, to_port |-> to_port]

Mapping(name, description, folder, transformations, connections) ==
    [name |-> name, description |-> description, folder |-> folder,
     transformations |-> transformations, connections |-> connections]

\* get_sources with the type matched by its first word
get_sources_by_prefix(mapping) ==
    SelectSeq(mapping.transformations,
              LAMBDA t : t.type \in {"Source Definition", "Source Qualifier"})

get_sources(mapping) ==
    SelectSeq(mapping.transformations, LAMBDA t : t.type = "Source Definition")

get_targets(mapping) ==
    SelectSeq(mapping.transformations, LAMBDA t : t.type = "Target Definition")

\* dict(Counter(t.type for t in transformations))
get_transformation_counts(mapping) ==
    LET ts == mapping.transformations
    IN  [ty \in {ts[i].type : i \in 1..Len(ts)} |->
            Cardinality({i \in 1..Len(ts) : ts[i].type = ty})]

get_summary(mapping) ==
    [name |-> mapping.name,
     folder |-> mapping.folder,
     total_transformations |-> Len(mapping.transformations),
     total_connections |-> Len(mapping.connections),
     sources |-> Len(get_sources(mapping)),
     targets |-> Len(get_targets(mapping)),
     transformation_counts |-> get_transformation_counts(mapping)]

(***************************************************************************)
(* InformaticaXMLParser                                                    *)
(***************************************************************************)
TRANSFORMATION_TYPES ==
    [k \in {"Source Definition", "Source Qualifier", "Target Definition",
            "Expression", "Filter", "Aggregator", "Joiner", "Lookup Procedure",
            "Router", "Sorter", "Update Strategy", "Normalizer", "Rank",
            "Sequence Generator", "Stored Procedure", "Union"} |->
        IF k = "Lookup Procedure" THEN "Lookup" ELSE k]

\* the lookup with a fixed default: TRANSFORMATION_TYPES.get(trans_type, 'Unknown')
NormalizeTypeDefaulting(trans_type) ==
    IF trans_type \in DOMAIN TRANSFORMATION_TYPES
    THEN TRANSFORMATION_TYPES[trans_type] ELSE "Unknown"

\* TRANSFORMATION_TYPES.get(trans_type, trans_type)
NormalizeType(trans_type) ==
    IF trans_type \in DOMAIN TRANSFORMATION_TYPES
    THEN TRANSFORMATION_TYPES[trans_type] ELSE trans_type

\* self.namespace after _extract_namespace(): {'ns': uri} when the root's tag
\* starts with '{', else the {} of __init__
_extract_namespace(doc) ==
    IF doc[1].tag.ns # "" THEN [p \in {"ns"} |-> doc[1].tag.ns] ELSE EmptyDict

_find_element(doc, name, namespace) ==
    LET elem == find(doc, 1, name, namespace)
    IN  IF elem = None /\ namespace # EmptyDict
        THEN find(doc, 1, name, EmptyDict)
        ELSE elem

_find_all_elements(doc, name, namespace) ==
    LET elems == findall(doc, 1, name, namespace)
    IN  IF elems = <<>> /\ namespace # EmptyDict
        THEN findall(doc, 1, name, EmptyDict)
        ELSE elems

_get_folder_name(doc, namespace) ==
    LET folder_elem == _find_element(doc, "FOLDER", namespace)
    IN  IF folder_elem # None THEN GetOpt(doc[folder_elem[1]], "NAME") ELSE None

_parse_ports(doc, trans_elem) ==
    LET port_elements == findall(doc, trans_elem, "TRANSFORMFIELD", EmptyDict)
    IN  [k \in 1..Len(port_elements) |->
            LET port_elem == doc[port_elements[k]]
            IN  Port(Get(port_elem, "NAME", "Unknown"),
                     Get(port_elem, "DATATYPE", "string"),
                     _safe_int(GetOpt(port_elem, "PRECISION")),
                     _safe_int(GetOpt(port_elem, "SCALE")),
                     Get(port_elem, "NULLABLE", "NOTNULL"),
                     Get(port_elem, "PORTTYPE", "INPUT"),
                     GetOpt(port_elem, "EXPRESSION"))]

\* the loop with properties.setdefault(prop_name, prop_value): the first entry wins
RECURSIVE OverlayPropertiesFirstWins(_, _, _)
OverlayPropertiesFirstWins(properties, doc, prop_elems) ==
    IF prop_elems = <<>> THEN properties
    ELSE LET prop_name == GetOpt(doc[Head(prop_elems)], "NAME")
             prop_value == GetOpt(doc[Head(prop_elems)], "VALUE")
         IN  OverlayPropertiesFirstWins(
                 IF Truthy(prop_name) /\ Truthy(prop_value)
                    /\ prop_name[1] \notin DOMAIN properties
                 THEN DictSet(properties, prop_name[1], prop_value[1])
                 ELSE properties,
                 doc, Tail(prop_elems))

\* the loop over the TABLEATTRIBUTE elements of _parse_properties
RECURSIVE OverlayProperties(_, _, _)
OverlayProperties(properties, doc, prop_elems) ==
    IF prop_elems = <<>> THEN properties
    ELSE LET prop_name == GetOpt(doc[Head(prop_elems)], "NAME")
             prop_value == GetOpt(doc[Head(prop_elems)], "VALUE")
         IN  OverlayProperties(
                 IF Truthy(prop_name) /\ Truthy(prop_value)
                 THEN DictSet(properties, prop_name[1], prop_value[1])
                 ELSE properties,
                 doc, Tail(prop_elems))

_parse_properties(doc, trans_elem) ==
    OverlayProperties(doc[trans_elem].attrib, doc,
                      findall(doc, trans_elem, "TABLEATTRIBUTE", EmptyDict))

ParseTransformation(doc, trans_elem) ==
    Transformation(Get(doc[trans_elem], "NAME", "Unknown"),
                   NormalizeType(Get(doc[trans_elem], "TYPE", "Unknown")),
                   GetOpt(doc[trans_elem], "DESCRIPTION"),
                   _parse_ports(doc, trans_elem),
                   _parse_properties(doc, trans_elem))

\* the transformations looked up from the root instead of the mapping element
_parse_transformations_from_root(doc, mapping_elem) ==
    LET trans_elements == findall(doc, 1, "TRANSFORMATION", EmptyDict)
    IN  [k \in 1..Len(trans_elements) |-> ParseTransformation(doc, trans_elements[k])]

_parse_transformations(doc, mapping_elem) ==
    LET trans_elements == findall(doc, mapping_elem, "TRANSFORMATION", EmptyDict)
    IN  [k \in 1..Len(trans_elements) |-> ParseTransformation(doc, trans_elements[k])]

\* the test with "is not None" in place of truthiness: an empty attribute passes
ConnectorPresent(conn_elem) ==
    \A a \in {"FROMFIELD", "FROMINSTANCE", "TOFIELD", "TOINSTANCE"} :
        GetOpt(conn_elem, a) # None

\* all([from_field, from_instance, to_field, to_instance])
ConnectorComplete(conn_elem) ==
    /\ Truthy(GetOpt(conn_elem, "FROMFIELD"))
    /\ Truthy(GetOpt(conn_elem, "FROMINSTANCE"))
    /\ Truthy(GetOpt(conn_elem, "TOFIELD"))
    /\ Truthy(GetOpt(conn_elem, "TOINSTANCE"))

ParseConnection(conn_elem) ==
    Connection(conn_elem.attrib["FROMINSTANCE"], conn_elem.attrib["FROMFIELD"],
               conn_elem.attrib["TOINSTANCE"], conn_elem.attrib["TOFIELD"])

_parse_connections(doc, mapping_elem) ==
    LET connector_elements ==
            SelectSeq(findall(doc, mapping_elem, "CONNECTOR", EmptyDict),
                      LAMBDA j : ConnectorComplete(doc[j]))
    IN  [k \in 1..Len(connector_elements) |-> ParseConnection(doc[connector_elements[k]])]

\* the element parse() takes for the mapping, or None
MappingElem(doc) == _find_element(doc, "MAPPING", _extract_namespace(doc))

\* the exception parse() raises on this file, or None
ParseError(xml) ==
    IF ~xml.wellformed
    THEN Some([type |-> "ParseError", msg |-> "not well-formed"])
    ELSE IF MappingElem(xml.doc) = None
         THEN Some([type |-> "ValueError", msg |-> "No MAPPING element found in XML"])
         ELSE None

\* the Mapping parse() returns when it does not raise
parse(doc) ==
    LET mapping_elem == MappingElem(doc)[1]
    IN  Mapping(Get(doc[mapping_elem], "NAME", "Unknown"),
                GetOpt(doc[mapping_elem], "DESCRIPTION"),
                _get_folder_name(doc, _extract_namespace(doc)),
                _parse_transformations(doc, mapping_elem),
                _parse_connections(doc, mapping_elem))

(***************************************************************************)
(* print_mapping_summary: the report, one record per printed line          *)
(***************************************************************************)
SamplePortLimit == 5

ExpressionLimit == 3

PreviewLimit == 10

RECURSIVE Flatten(_)
Flatten(blocks) ==
    IF blocks = <<>> THEN <<>> ELSE Head(blocks) \o Flatten(Tail(blocks))

\* every transformation type of the documents explored, in sorted() order
SortedTypes ==
    <<"", "CustomStep", "Expression", "Lookup", "Source Definition",
      "Source Qualifier", "Target Definition", "Unknown">>

BreakdownLines(counts) ==
    LET present == SelectSeq(SortedTypes, LAMBDA ty : ty \in DOMAIN counts)
    IN  [k \in 1..Len(present) |->
            [line |-> "count", type |-> present[k], count |-> counts[present[k]]]]

\* the block printed for one source or target
EndpointBlock(kind, t) ==
    LET sample == Take(t.ports, SamplePortLimit)
    IN  <<[line |-> kind, name |-> t.name],
          [line |-> "type", type |-> t.type],
          [line |-> "ports", count |-> Len(t.ports)]>>
        \o (IF t.ports # <<>>
            THEN <<[line |-> "sample_ports"]>>
                 \o [k \in 1..Len(sample) |->
                        [line |-> "port", name |-> sample[k].name,
                         datatype |-> sample[k].datatype]]
            ELSE <<>>)

\* the block printed for one transformation that is no source and no target
DetailBlock(t) ==
    LET expr_ports == SelectSeq(t.ports, LAMBDA p : Truthy(p.expression))
        shown == Take(expr_ports, ExpressionLimit)
    IN  <<[line |-> "transformation", name |-> t.name],
          [line |-> "type", type |-> t.type],
          [line |-> "ports", count |-> Len(t.ports)]>>
        \o (IF expr_ports # <<>>
            THEN <<[line |-> "expressions", count |-> Len(expr_ports)]>>
                 \o [k \in 1..Len(shown) |->
                        [line |-> "expression", name |-> shown[k].name,
                         expression |-> shown[k].expression[1]]]
            ELSE <<>>)

\* the preview with the note printed from PreviewLimit connections on
DataFlowLinesNoteAtLimit(connections) ==
    LET shown == Take(connections, PreviewLimit)
    IN  [i \in 1..Len(shown) |-> [line |-> "conn", i |-> i, conn |-> shown[i]]]
        \o (IF Len(connections) >= PreviewLimit
            THEN <<[line |-> "more", count |-> Len(connections) - PreviewLimit]>>
            ELSE <<>>)

DataFlowLines(connections) ==
    LET shown == Take(connections, PreviewLimit)
    IN  [i \in 1..Len(shown) |-> [line |-> "conn", i |-> i, conn |-> shown[i]]]
        \o (IF Len(connections) > PreviewLimit
            THEN <<[line |-> "more", count |-> Len(connections) - PreviewLimit]>>
            ELSE <<>>)

print_mapping_summary(mapping) ==
    LET summary == get_summary(mapping)
        sources == get_sources(mapping)
        targets == get_targets(mapping)
        others == SelectSeq(mapping.transformations,
                            LAMBDA t : t.type \notin {"Source Definition",
                                                      "Target Definition"})
    IN  <<[line |-> "title", name |-> mapping.name],
          [line |-> "folder", folder |-> summary.folder],
          [line |-> "total_transformations", count |-> summary.total_transformations],
          [line |-> "total_connections", count |-> summary.total_connections],
          [line |-> "source_count", count |-> summary.sources],
          [line |-> "target_count", count |-> summary.targets],
          [line |-> "section", title |-> "TRANSFORMATION BREAKDOWN"]>>
        \o BreakdownLines(summary.transformation_counts)
        \o <<[line |-> "section", title |-> "SOURCE TRANSFORMATIONS"]>>
        \o Flatten([k \in 1..Len(sources) |-> EndpointBlock("source", sources[k])])
        \o <<[line |-> "section", title |-> "TARGET TRANSFORMATIONS"]>>
        \o Flatten([k \in 1..Len(targets) |-> EndpointBlock("target", targets[k])])
        \o <<[line |-> "section", title |-> "TRANSFORMATION DETAILS"]>>
        \o Flatten([k \in 1..Len(others) |-> DetailBlock(others[k])])
        \o <<[line |-> "section", title |-> "DATA FLOW (First 10 connections)"]>>
        \o DataFlowLines(mapping.connections)

(***************************************************************************)
(* export_to_json: the JSON document json.dump writes                      *)
(***************************************************************************)
JNull == [json |-> "null"]

JStr(s) == [json |-> "string", s |-> s]

JNum(n) == [json |-> "number", n |-> n]

JArr(items) == [json |-> "array", items |-> items]

JObj(members) == [json |-> "object", members |-> members]

\* an Optional[str] written as "" when it is None
JOptStrEmpty(o) == IF o = None THEN JStr("") ELSE JStr(o[1])

\* json.dump of an Optional[str] and of an Optional[int]
JOptStr(o) == IF o = None THEN JNull ELSE JStr(o[1])

JOptNum(o) == IF o = None THEN JNull ELSE JNum(o[1])

ExportPort(p) ==
    JObj([name |-> JStr(p.name),
          datatype |-> JStr(p.datatype),
          precision |-> JOptNum(p.precision),
          scale |-> JOptNum(p.scale),
          nullable |-> JStr(p.nullable),
          port_type |-> JStr(p.port_type),
          expression |-> JOptStr(p.expression)])

ExportTransformation(t) ==
    JObj([name |-> JStr(t.name),
          type |-> JStr(t.type),
          description |-> JOptStr(t.description),
          ports |-> JArr([k \in 1..Len(t.ports) |-> ExportPort(t.ports[k])]),
          properties |-> JObj([k \in DOMAIN t.properties |-> JStr(t.properties[k])])])

ExportConnection(c) ==
    JObj([from_transformation |-> JStr(c.from_transformation),
          from_port |-> JStr(c.from_port),
          to_transformation |-> JStr(c.to_transformation),
          to_port |-> JStr(c.to_port)])

export_to_json(mapping) ==
    JObj([name |-> JStr(mapping.name),
          description |-> JOptStr(mapping.description),
          folder |-> JOptStr(mapping.folder),
          transformations |->
              JArr([k \in 1..Len(mapping.transformations) |->
                       ExportTransformation(mapping.transformations[k])]),
          connections |->
              JArr([k \in 1..Len(mapping.connections) |->
                       ExportConnection(mapping.connections[k])])])

(***************************************************************************)
(* Reading an exported document back into the data model                   *)
(***************************************************************************)
ReadOpt(j) == IF j.json = "null" THEN None ELSE IF j.json = "string" THEN Some(j.s) ELSE Some(j.n)

ReadPort(j) ==
    Port(j.members.name.s, j.members.datatype.s, ReadOpt(j.members.precision),
         ReadOpt(j.members.scale), j.members.nullable.s, j.members.port_type.s,
         ReadOpt(j.members.expression))

ReadTransformation(j) ==
    LET ports == j.members.ports.items
        props == j.members.properties.members
    IN  Transformation(j.members.name.s, j.members.type.s,
                       ReadOpt(j.members.description),
                       [k \in 1..Len(ports) |-> ReadPort(ports[k])],
                       [k \in DOMAIN props |-> props[k].s])

ReadConnection(j) ==
    Connection(j.members.from_transformation.s, j.members.from_port.s,
               j.members.to_transformation.s, j.members.to_port.s)

ReadMapping(j) ==
    LET ts == j.members.transformations.items
        cs == j.members.connections.items
    IN  Mapping(j.members.name.s, ReadOpt(j.members.description),
                ReadOpt(j.members.folder),
                [k \in 1..Len(ts) |-> ReadTransformation(ts[k])],
                [k \in 1..Len(cs) |-> ReadConnection(cs[k])])

(***************************************************************************)
(* The command line                                                        *)
(***************************************************************************)
xml_file == <<"t", "e", "s", "t", ".", "x", "m", "l">>

OtherPath == <<"i", "n", ".", "x", "m", "l">>

\* xml_file.replace('.xml', '_parsed.json')
DerivedPath(path) ==
    StrReplace(path, <<".", "x", "m", "l">>,
               <<"_", "p", "a", "r", "s", "e", "d", ".", "j", "s", "o", "n">>)

json_output == DerivedPath(xml_file)

(***************************************************************************)
(* The documents explored                                                  *)
(***************************************************************************)
Uri == "urn:informatica"

RECURSIVE DepthSeqs(_)
DepthSeqs(n) ==
    IF n = 1 THEN {<<0>>}
    ELSE UNION {{Append(d, k) : k \in 1..(d[n - 1] + 1)} : d \in DepthSeqs(n - 1)}

\* every tree of n elements with its root among roots and the rest among elems
Trees(roots, elems, n) ==
    {[i \in 1..n |-> Node(IF i = 1 THEN r ELSE es[i - 1], d[i])] :
        r \in roots, es \in [1..(n - 1) -> elems], d \in DepthSeqs(n)}

\* a chain of nested elements, outermost first
Chain(els) == [i \in 1..Len(els) |-> Node(els[i], i - 1)]

\* kids as the children of the innermost element of a chain
WithChildren(chain, kids) ==
    chain \o [k \in 1..Len(kids) |-> Node(kids[k], Len(chain))]

Powermart == El("", "POWERMART", EmptyDict)

PlainMapping == El("", "MAPPING", [NAME |-> "m_1"])

ConnectorA ==
    [FROMFIELD |-> "a", FROMINSTANCE |-> "src", TOFIELD |-> "b", TOINSTANCE |-> "tgt"]

ConnectorB ==
    [FROMFIELD |-> "x", FROMINSTANCE |-> "ghost", TOFIELD |-> "y", TOINSTANCE |-> "src"]

\* trees of unqualified elements
PlainElems(ns) ==
    {El(ns, "MAPPING", [NAME |-> "m_1"]),
     El(ns, "FOLDER", [NAME |-> "F1"]),
     El(ns, "TRANSFORMATION", [NAME |-> "exp_1", TYPE |-> "Expression"]),
     El(ns, "CONNECTOR", ConnectorA)}

StructureDocs ==
    UNION {Trees({Powermart, El("", "MAPPING", [NAME |-> "m_root"])},
                 PlainElems(""), n) : n \in 1..MaxNodes}

\* trees that mix qualified and unqualified elements
NamespaceDocs ==
    UNION {Trees({Powermart, El(Uri, "POWERMART", EmptyDict),
                  El(Uri, "MAPPING", [NAME |-> "m_root"])},
                 PlainElems("") \cup PlainElems(Uri), n) : n \in 1..MaxNsNodes}

TransAttribs ==
    {Restrict([NAME |-> "t_1", TYPE |-> ty, DESCRIPTION |-> "d"], keys) :
        ty \in {"Lookup Procedure", "CustomStep"},
        keys \in {{"NAME", "TYPE"}, {"NAME"}, {"TYPE", "DESCRIPTION"}, {}}}

PropElems ==
    {El("", "TABLEATTRIBUTE", a) :
        a \in {Restrict([NAME |-> n, VALUE |-> v], keys) :
                  n \in {"Sql", "TYPE", ""}, v \in {"v1", "v2", ""},
                  keys \in {{"NAME", "VALUE"}, {"NAME"}, {"VALUE"}}}
              \ {[NAME |-> "TYPE", VALUE |-> "v2"], [NAME |-> "TYPE", VALUE |-> ""],
                 [NAME |-> "", VALUE |-> "v2"], [NAME |-> "", VALUE |-> ""],
                 [NAME |-> "TYPE"], [NAME |-> ""], [VALUE |-> "v2"], [VALUE |-> ""]}}

PropertyDocs ==
    {WithChildren(Chain(<<Powermart, PlainMapping, El("", "TRANSFORMATION", a)>>), props) :
        a \in TransAttribs, props \in SeqsUpTo(PropElems, MaxProps)}

TypeElems ==
    {El("", "TRANSFORMATION", a) :
        a \in {Restrict([NAME |-> "t_1", TYPE |-> ty], keys) :
                  ty \in {"Source Definition", "Target Definition",
                          "Source Qualifier", "Lookup Procedure"},
                  keys \in {{"NAME", "TYPE"}}}
              \cup {[NAME |-> "t_2"], [TYPE |-> "CustomStep"]}}

TypeDocs ==
    {WithChildren(Chain(<<Powermart, PlainMapping>>), ts) :
        ts \in SeqsUpTo(TypeElems, MaxTrans)}

PortElems ==
    {El("", "TRANSFORMFIELD", a) :
        a \in {[NAME |-> "p1", DATATYPE |-> "decimal", PRECISION |-> "12",
                SCALE |-> "2", NULLABLE |-> "NULL", PORTTYPE |-> "OUTPUT",
                EXPRESSION |-> "a+b"],
               [NAME |-> "p2", PRECISION |-> "abc", SCALE |-> " 7"],
               [NAME |-> "p3", PRECISION |-> "-5", SCALE |-> "1.5", EXPRESSION |-> ""],
               [DATATYPE |-> "string", PRECISION |-> "", PORTTYPE |-> "INPUT/OUTPUT"],
               EmptyDict}}

PortDocs ==
    {WithChildren(Chain(<<Powermart, El("", "MAPPING", m), El("", "TRANSFORMATION", t)>>), ports) :
        m \in {[NAME |-> "m_1", DESCRIPTION |-> "nightly load"], EmptyDict},
        t \in {[NAME |-> "src", TYPE |-> "Source Definition", DESCRIPTION |-> "d"],
               [NAME |-> "exp_1", TYPE |-> "Expression"]},
        ports \in SeqsUpTo(PortElems, MaxPorts)}

ConnElems ==
    {El("", "CONNECTOR", a) :
        a \in {ConnectorA, ConnectorB,
               Restrict(ConnectorA, {"FROMFIELD", "FROMINSTANCE", "TOINSTANCE"}),
               [ConnectorA EXCEPT !["FROMFIELD"] = ""],
               EmptyDict}}

ConnectorDocs ==
    {WithChildren(Chain(pre), conns) :
        pre \in {<<Powermart, PlainMapping>>,
                 <<Powermart, El("", "FOLDER", [NAME |-> "F1"]), PlainMapping>>,
                 <<Powermart, El("", "FOLDER", EmptyDict), PlainMapping>>},
        conns \in SeqsUpTo(ConnElems, MaxConnVariants)}

LongConnectorDocs ==
    {WithChildren(Chain(<<Powermart, PlainMapping>>), conns) :
        conns \in SeqsUpTo({El("", "CONNECTOR", ConnectorA),
                            El("", "CONNECTOR", ConnectorB)}, MaxConn)}

Documents ==
    StructureDocs \cup NamespaceDocs \cup PropertyDocs \cup TypeDocs
    \cup PortDocs \cup ConnectorDocs \cup LongConnectorDocs

\* what is at the path xml_file: a well-formed document, or text that is none
XmlFiles ==
    {[wellformed |-> TRUE, doc |-> d] : d \in Documents}
    \cup {[wellformed |-> FALSE, doc |-> <<>>]}

\* the arguments the command is started with
ArgvSet == {<<>>, <<OtherPath>>}

(***************************************************************************)
(* State                                                                   *)
(***************************************************************************)
VARIABLES
    argv,         \* sys.argv[1:]
    xml,          \* the content of the file at xml_file
    pc,           \* where the main block is
    namespace,    \* parser.namespace
    mapping,      \* the main block's mapping: None until parse() has returned
    error,        \* the exception the except clause caught, or None
    stdout,       \* the lines printed, in order
    stderr,       \* what traceback.print_exc() wrote
    files,        \* the files written, in order
    exit_status   \* the process's exit status, None while it runs

vars == <<argv, xml, pc, namespace, mapping, error, stdout, stderr, files, exit_status>>

Init ==
    /\ argv \in ArgvSet
    /\ xml \in XmlFiles
    /\ pc = "parse"
    /\ namespace = EmptyDict
    /\ mapping = None
    /\ error = None
    /\ stdout = <<>>
    /\ stderr = <<>>
    /\ files = <<>>
    /\ exit_status = None

\* print("Parsing ..."); parser = InformaticaXMLParser(xml_file); mapping = parser.parse()
ParseReturns ==
    /\ pc = "parse"
    /\ ParseError(xml) = None
    /\ stdout' = Append(stdout, [line |-> "parsing", file |-> xml_file])
    /\ namespace' = _extract_namespace(xml.doc)
    /\ mapping' = Some(parse(xml.doc))
    /\ pc' = "report"
    /\ UNCHANGED <<argv, xml, error, stderr, files, exit_status>>

\* the same, parse() raising: ET.parse on text that is not well-formed, or the
\* ValueError of a missing mapping element (after _extract_namespace)
ParseRaises ==
    /\ pc = "parse"
    /\ ParseError(xml) # None
    /\ stdout' = Append(stdout, [line |-> "parsing", file |-> xml_file])
    /\ namespace' = IF xml.wellformed THEN _extract_namespace(xml.doc) ELSE namespace
    /\ error' = ParseError(xml)
    /\ pc' = "except"
    /\ UNCHANGED <<argv, xml, mapping, stderr, files, exit_status>>

\* print_mapping_summary(mapping)
PrintMappingSummary ==
    /\ pc = "report"
    /\ stdout' = stdout \o print_mapping_summary(mapping[1])
    /\ pc' = "export"
    /\ UNCHANGED <<argv, xml, namespace, mapping, error, stderr, files, exit_status>>

\* export_to_json(mapping, json_output)
ExportToJson ==
    /\ pc = "export"
    /\ files' = Append(files, [path |-> json_output, data |-> export_to_json(mapping[1])])
    /\ stdout' = Append(stdout, [line |-> "exported", file |-> json_output])
    /\ pc' = "completed"
    /\ UNCHANGED <<argv, xml, namespace, mapping, error, stderr, exit_status>>

\* the same, open(output_path, 'w') raising
ExportRaises ==
    /\ pc = "export"
    /\ error' = Some([type |-> "OSError", msg |-> "cannot open for writing"])
    /\ pc' = "except"
    /\ UNCHANGED <<argv, xml, namespace, mapping, stdout, stderr, files, exit_status>>

\* print("Parsing completed successfully!"), and the interpreter ends
Completed ==
    /\ pc = "completed"
    /\ stdout' = Append(stdout, [line |-> "completed"])
    /\ exit_status' = Some(0)
    /\ pc' = "exited"
    /\ UNCHANGED <<argv, xml, namespace, mapping, error, stderr, files>>

\* the handler without its sys.exit(1): the interpreter ends with status 0
ExceptHandlerNoExit ==
    /\ pc = "except"
    /\ stdout' = Append(stdout, [line |-> "error", msg |-> error[1].msg])
    /\ stderr' = Append(stderr, [line |-> "traceback", type |-> error[1].type])
    /\ exit_status' = Some(0)
    /\ pc' = "exited"
    /\ UNCHANGED <<argv, xml, namespace, mapping, error, files>>

\* except Exception as e: print the error, traceback.print_exc(), sys.exit(1)
ExceptHandler ==
    /\ pc = "except"
    /\ stdout' = Append(stdout, [line |-> "error", msg |-> error[1].msg])
    /\ stderr' = Append(stderr, [line |-> "traceback", type |-> error[1].type])
    /\ exit_status' = Some(1)
    /\ pc' = "exited"
    /\ UNCHANGED <<argv, xml, namespace, mapping, error, files>>

Next ==
    \/ ParseReturns
    \/ ParseRaises
    \/ PrintMappingSummary
    \/ ExportToJson
    \/ ExportRaises
    \/ Completed
    \/ ExceptHandler

Spec == Init /\ [][Next]_vars

(***************************************************************************)
(* Properties                                                              *)
(*                                                                         *)
(* The properties name the elements of the document by the tree itself     *)
(* (parent and ancestor), not by the lookups of the parser.                *)
(***************************************************************************)
Doc == xml.doc

Returned == mapping # None

M == mapping[1]

\* the parent of element j (j is not the root)
ParentOf(doc, j) ==
    CHOOSE k \in 1..(j - 1) :
        /\ doc[k].depth = doc[j].depth - 1
        /\ \A l \in (k + 1)..(j - 1) : doc[l].depth >= doc[j].depth

RECURSIVE IsUnder(_, _, _)
IsUnder(doc, a, j) ==
    /\ j > a
    /\ j >= 2
    /\ \/ ParentOf(doc, j) = a
       \/ IsUnder(doc, a, ParentOf(doc, j))

\* the elements below element a that carry the unqualified tag name, in document order
ElementsUnder(doc, a, name) ==
    SortedSeq({j \in 1..Len(doc) : IsUnder(doc, a, j) /\ doc[j].tag = Tag("", name)})

\* every element of the document that carries the unqualified tag name
ElementsNamed(doc, name) == {j \in 1..Len(doc) : doc[j].tag = Tag("", name)}

\* the first element below the root that carries the unqualified tag MAPPING
Located(doc) ==
    CHOOSE j \in ElementsNamed(doc, "MAPPING") \ {1} :
        \A k \in ElementsNamed(doc, "MAPPING") \ {1} : j <= k

ReportPrinted == \E i \in 1..Len(stdout) : stdout[i].line = "title"

LinesOf(kind) == SelectSeq(stdout, LAMBDA l : l.line = kind)

\* C1: parse() fails with the 'no mapping element found' error exactly when
\* no element of the tree, the root included, carries the tag MAPPING, and
\* returns a Mapping for every well-formed document that holds such an element.
C1_MappingFoundAnywhere ==
    (xml.wellformed /\ pc # "parse") =>
        /\ Returned <=> ElementsNamed(Doc, "MAPPING") # {}
        /\ ~Returned => error = Some([type |-> "ValueError",
                                      msg |-> "No MAPPING element found in XML"])

\* C2 as stated: the Mapping parse() returns has as many transformations as
\* the whole document has TRANSFORMATION elements.
C2_CountsWholeDocument ==
    Returned => Len(M.transformations) = Cardinality(ElementsNamed(Doc, "TRANSFORMATION"))

\* C2 as amended: the transformations of the Mapping parse() returns are, in
\* document order, the elements with the unqualified tag TRANSFORMATION below
\* the located mapping element (the first MAPPING below the root);
\* TRANSFORMATION elements elsewhere in the document are not counted.
C2_CountsUnderMapping ==
    Returned =>
        LET under == ElementsUnder(Doc, Located(Doc), "TRANSFORMATION")
        IN  /\ Len(M.transformations) = Len(under)
            /\ \A k \in 1..Len(under) :
                  /\ "NAME" \in DOMAIN Doc[under[k]].attrib
                        => M.transformations[k].name = Doc[under[k]].attrib["NAME"]
                  /\ \A a \in DOMAIN Doc[under[k]].attrib :
                        a \in DOMAIN M.transformations[k].properties

C2_Witness ==
    /\ Returned
    /\ Len(M.transformations) >= 1
    /\ Cardinality(ElementsNamed(Doc, "TRANSFORMATION")) > Len(M.transformations)

Addressing == {"FROMFIELD", "FROMINSTANCE", "TOFIELD", "TOINSTANCE"}

\* C3: the connections of the Mapping parse() returns are, in document order,
\* one Connection per CONNECTOR element below the mapping element whose four
\* addressing attributes are all present and non-empty, FROMINSTANCE copied to
\* from_transformation, FROMFIELD to from_port, TOINSTANCE to
\* to_transformation and TOFIELD to to_port; any other connector is dropped
\* without an error, and names that match nothing are recorded as they are.
C3_Connections ==
    Returned =>
        LET complete ==
                SelectSeq(ElementsUnder(Doc, Located(Doc), "CONNECTOR"),
                          LAMBDA j : \A a \in Addressing :
                              a \in DOMAIN Doc[j].attrib /\ Doc[j].attrib[a] # "")
        IN  /\ Len(M.connections) = Len(complete)
            /\ \A k \in 1..Len(complete) :
                  M.connections[k] =
                      [from_transformation |-> Doc[complete[k]].attrib["FROMINSTANCE"],
                       from_port |-> Doc[complete[k]].attrib["FROMFIELD"],
                       to_transformation |-> Doc[complete[k]].attrib["TOINSTANCE"],
                       to_port |-> Doc[complete[k]].attrib["TOFIELD"]]

\* a connector without TOFIELD was dropped and one naming no transformation kept
C3_Witness ==
    /\ Returned
    /\ error = None
    /\ Len(M.connections) = 1
    /\ M.connections[1].from_transformation = "ghost"
    /\ \E j \in ElementsNamed(Doc, "CONNECTOR") :
          DOMAIN Doc[j].attrib = Addressing \ {"TOFIELD"}

MappingKeys == {"name", "description", "folder", "transformations", "connections"}

\* C4: the document export_to_json writes, read back, is equal to the Mapping
\* in every field: no field is omitted, no list is cut short or reordered,
\* and an optional field that is None comes back None.
C4_RoundTrip ==
    files # <<>> =>
        /\ files[1].path = json_output
        /\ DOMAIN files[1].data.members = MappingKeys
        /\ Len(files[1].data.members.transformations.items) = Len(M.transformations)
        /\ Len(files[1].data.members.connections.items) = Len(M.connections)
        /\ ReadMapping(files[1].data) = M

C4_Witness ==
    /\ files # <<>>
    /\ M.description = None
    /\ Len(M.transformations) = 1
    /\ Len(M.transformations[1].ports) = 2
    /\ M.transformations[1].description # None
    /\ M.transformations[1].ports[1].precision = Some(12)
    /\ M.transformations[1].ports[2].precision = None
    /\ M.transformations[1].ports[2].expression = None

EndpointTypes == {"Source Definition", "Target Definition"}

\* C5: get_summary() has sources + targets <= total_transformations, with
\* equality exactly when every transformation's type is exactly
\* "Source Definition" or exactly "Target Definition".
C5_SummaryCounts ==
    Returned =>
        LET summary == get_summary(M)
        IN  /\ summary.total_transformations = Len(M.transformations)
            /\ summary.sources + summary.targets <= summary.total_transformations
            /\ summary.sources + summary.targets = summary.total_transformations
                  <=> \A k \in 1..Len(M.transformations) :
                          M.transformations[k].type \in EndpointTypes
            /\ summary.sources =
                  Cardinality({k \in 1..Len(M.transformations) :
                                  M.transformations[k].type = "Source Definition"})
            /\ summary.targets =
                  Cardinality({k \in 1..Len(M.transformations) :
                                  M.transformations[k].type = "Target Definition"})

\* a source, a target and a source qualifier: the qualifier is no source
C5_Witness ==
    /\ Returned
    /\ Len(M.transformations) = 3
    /\ get_summary(M).sources = 1
    /\ get_summary(M).targets = 1
    /\ \E k \in 1..3 : M.transformations[k].type = "Source Qualifier"

\* C6: a transformation's type is the table's value when the TYPE attribute is
\* a key of TRANSFORMATION_TYPES ("Lookup Procedure" becomes "Lookup"), the
\* TYPE attribute unchanged when it is no key ("CustomStep" stays
\* "CustomStep") and "Unknown" when there is no TYPE attribute; a missing NAME
\* attribute gives the name "Unknown".
C6_TypeAndName ==
    Returned =>
        LET under == ElementsUnder(Doc, Located(Doc), "TRANSFORMATION")
        IN  /\ Len(M.transformations) = Len(under)
            /\ \A k \in 1..Len(under) :
                  LET attrib == Doc[under[k]].attrib
                      t == M.transformations[k]
                  IN  /\ "TYPE" \notin DOMAIN attrib => t.type = "Unknown"
                      /\ ("TYPE" \in DOMAIN attrib
                             /\ attrib["TYPE"] \in DOMAIN TRANSFORMATION_TYPES)
                            => t.type = TRANSFORMATION_TYPES[attrib["TYPE"]]
                      /\ ("TYPE" \in DOMAIN attrib
                             /\ attrib["TYPE"] \notin DOMAIN TRANSFORMATION_TYPES)
                            => t.type = attrib["TYPE"]
                      /\ ("TYPE" \in DOMAIN attrib /\ attrib["TYPE"] = "Lookup Procedure")
                            => t.type = "Lookup"
                      /\ ("TYPE" \in DOMAIN attrib /\ attrib["TYPE"] = "CustomStep")
                            => t.type = "CustomStep"
                      /\ t.name = IF "NAME" \in DOMAIN attrib
                                  THEN attrib["NAME"] ELSE "Unknown"

C6_Witness ==
    /\ Returned
    /\ Len(M.transformations) = 3
    /\ M.transformations[1].type = "Lookup"
    /\ M.transformations[2].type = "CustomStep"
    /\ M.transformations[3].type = "Unknown"
    /\ M.transformations[2].name = "Unknown"

\* C7: with a namespace-qualified root the parser remembers the root's
\* namespace URI, and a document whose MAPPING element is in that namespace,
\* like one whose MAPPING element is unqualified, is parsed to a Mapping.
C7_NamespaceLookup ==
    (xml.wellformed /\ pc # "parse" /\ Doc[1].tag.ns # "") =>
        /\ namespace = [p \in {"ns"} |-> Doc[1].tag.ns]
        /\ (\E j \in 2..Len(Doc) :
               Doc[j].tag \in {Tag(Doc[1].tag.ns, "MAPPING"), Tag("", "MAPPING")}) => Returned

\* the property elements below element j that have a name and a value
ValidProps(doc, j) ==
    SelectSeq(ElementsUnder(doc, j, "TABLEATTRIBUTE"),
              LAMBDA p : /\ "NAME" \in DOMAIN doc[p].attrib
                         /\ "VALUE" \in DOMAIN doc[p].attrib
                         /\ doc[p].attrib["NAME"] # ""
                         /\ doc[p].attrib["VALUE"] # "")

\* C8: a transformation's properties are its element's own attributes
\* overlaid, in document order, with one entry per nested TABLEATTRIBUTE that
\* has a NAME and a VALUE, both non-empty; the others are skipped; on a key
\* collision the later entry wins.
C8_Properties ==
    Returned =>
        LET under == ElementsUnder(Doc, Located(Doc), "TRANSFORMATION")
        IN  /\ Len(M.transformations) = Len(under)
            /\ \A k \in 1..Len(under) :
                  LET attrib == Doc[under[k]].attrib
                      valid == ValidProps(Doc, under[k])
                      named(x) == {i \in 1..Len(valid) : Doc[valid[i]].attrib["NAME"] = x}
                      last(x) == CHOOSE i \in named(x) : \A o \in named(x) : o <= i
                      props == M.transformations[k].properties
                  IN  /\ DOMAIN props =
                            DOMAIN attrib
                            \cup {Doc[valid[i]].attrib["NAME"] : i \in 1..Len(valid)}
                      /\ \A x \in DOMAIN props :
                            props[x] = IF named(x) # {}
                                       THEN Doc[valid[last(x)]].attrib["VALUE"]
                                       ELSE attrib[x]

\* a later property replaced an earlier one, beside the element's own attributes
C8_Witness ==
    /\ Returned
    /\ Len(M.transformations) = 1
    /\ LET j == ElementsUnder(Doc, Located(Doc), "TRANSFORMATION")[1]
           ps == ElementsUnder(Doc, j, "TABLEATTRIBUTE")
       IN  /\ Len(ps) = 2
           /\ Doc[ps[1]].attrib = [NAME |-> "Sql", VALUE |-> "v1"]
           /\ Doc[ps[2]].attrib = [NAME |-> "Sql", VALUE |-> "v2"]
           /\ "NAME" \in DOMAIN Doc[j].attrib
    /\ M.transformations[1].properties["Sql"] = "v2"
    /\ M.transformations[1].properties["NAME"] = "t_1"

\* the index in stdout of the first line of the given kind
FirstLine(kind) ==
    CHOOSE i \in 1..Len(stdout) :
        stdout[i].line = kind /\ \A k \in 1..(i - 1) : stdout[k].line # kind

ParsedJsonPath ==
    <<"t", "e", "s", "t", "_", "p", "a", "r", "s", "e", "d", ".", "j", "s", "o", "n">>

\* what C9 says of every run, wherever the input path comes from
RunOrder ==
    /\ exit_status \in {None, Some(0), Some(1)}
    /\ pc = "exited" <=> exit_status # None
    /\ ReportPrinted => Returned
    /\ files # <<>> =>
          /\ ReportPrinted
          /\ Len(files) = 1
          /\ FirstLine("title") < FirstLine("exported")
          /\ stdout[Len(stdout)].line \in {"exported", "completed"}
    /\ exit_status = Some(0) =>
          /\ Returned
          /\ error = None
          /\ ReportPrinted
          /\ files # <<>>
          /\ stderr = <<>>
    /\ (pc \in {"except", "exited"} /\ ~Returned) =>
          /\ ~ReportPrinted
          /\ files = <<>>
          /\ error # None
    /\ (pc = "exited" /\ ~Returned) =>
          /\ exit_status = Some(1)
          /\ stdout[Len(stdout)] = [line |-> "error", msg |-> error[1].msg]
          /\ stderr = <<[line |-> "traceback", type |-> error[1].type]>>

\* C9 as stated: the command is started with an input file path; it parses
\* that file and on success prints the report, then writes the export to the
\* path derived from the input path, and exits with status 0; on a parse
\* failure it prints an error and a trace and exits with status 1, having
\* printed no report and written no file.
C9_RunOnGivenPath ==
    /\ RunOrder
    /\ (Len(argv) = 1 /\ pc # "parse") => stdout[1] = [line |-> "parsing", file |-> argv[1]]
    /\ (Len(argv) = 1 /\ files # <<>>) => files[1].path = DerivedPath(argv[1])

\* C9 as amended: the command reads the fixed path test.xml whatever its
\* arguments are; on success it prints the report, then writes the export to
\* test_parsed.json, and ends with status 0; on a parse failure it prints an
\* error and a trace and exits with status 1, having printed no report and
\* written no file.
C9_RunOnFixedPath ==
    /\ RunOrder
    /\ pc # "parse" => stdout[1] = [line |-> "parsing", file |-> xml_file]
    /\ files # <<>> => files[1].path = ParsedJsonPath

\* a run started with another path ends with status 0, test.xml parsed and exported
C9_Witness ==
    /\ argv = <<OtherPath>>
    /\ pc = "exited"
    /\ exit_status = Some(0)
    /\ ReportPrinted
    /\ files # <<>>

\* C10: the data-flow section of the report lists the first min(n, 10) of the
\* Mapping's n connections, in order and numbered from 1; the note "... and N
\* more connections" is printed exactly when n > 10, after the entries and
\* with N = n - 10; with no connection the section is empty; the Mapping is
\* what parse() returned, unchanged.
C10_DataFlowPreview ==
    ReportPrinted =>
        LET n == Len(M.connections)
            k == IF n < 10 THEN n ELSE 10
            shown == LinesOf("conn")
            more == LinesOf("more")
            head == CHOOSE i \in 1..Len(stdout) :
                        stdout[i] = [line |-> "section",
                                     title |-> "DATA FLOW (First 10 connections)"]
        IN  /\ Len(shown) = k
            /\ \A i \in 1..k :
                  stdout[head + i] = [line |-> "conn", i |-> i, conn |-> M.connections[i]]
            /\ more # <<>> <=> n > 10
            /\ n > 10 => /\ more = <<[line |-> "more", count |-> n - 10]>>
                         /\ stdout[head + k + 1] = more[1]
            /\ mapping = Some(parse(Doc))

\* eleven connections: ten listed and a note of one more
C10_Witness ==
    /\ ReportPrinted
    /\ Len(M.connections) = 11
    /\ Len(LinesOf("conn")) = 10
    /\ LinesOf("more") = <<[line |-> "more", count |-> 1]>>

====
